---- MODULE Spec2Model ----
(***************************************************************************)
(* Model of the CLI template: the process of main.rs (argument parsing,    *)
(* effective log level, configuration loading and environment overrides,   *)
(* command dispatch, exit status), the run command (src/commands/run.rs)   *)
(* and the self-upgrade command (src/commands/upgrade.rs): release         *)
(* resolution, version check, asset selection, streamed download, archive  *)
(* extraction and replacement of the running executable.                   *)
(*                                                                         *)
(* Strings are sequences of tokens (a token is an atomic piece of text),   *)
(* so that concatenation is \o and string equality is sequence equality.   *)
(* One upgrade invocation is a walk of pc from "idle" to "done"; the file  *)
(* system (executable, staged binary, backup, staging directory) outlives  *)
(* the invocation and is inherited by the next one.  Spec is the upgrade   *)
(* command run again and again over that file system; SpecMain is one run  *)
(* of the process from Cli::parse to its exit, with either command.        *)
(***************************************************************************)
EXTENDS Integers, Sequences, FiniteSets, TLC

VARIABLES
    pc,          \* position of the invocation in execute_async
    target,      \* env!("TARGET"), the platform the binary was built for
    args,        \* upgrade::Args {version, force}
    status,      \* resp.status() of the release query, 0 = no response
    release,     \* GithubResponse {tag_name, assets} once resolved
    asset,       \* index into release.assets of the selected asset, 0 = none
    content_length, \* res.content_length() of the download response
    total_size,  \* download_update: let total_size, -1 = not yet bound
    downloaded,  \* download_update: let mut downloaded: u64
    buffer,      \* download_update: number of bytes in `buffer`
    chunks,      \* number of items taken from the byte stream
    received,    \* bytes the byte stream has yielded so far
    stream,      \* the byte stream: "idle", "open", "ended" (None) or "failed" (Err)
    pbPrev,      \* position of the progress bar before the last set_position
    pbPos,       \* position of the progress bar
    staging,     \* TRUE when the cache directory exists
    staged,      \* content of <cache_dir>/<APP_NAME>
    exe,         \* content of the file at env::current_exe()
    backup,      \* content of the file at current_exe.with_extension("old")
    moveErr,     \* ErrorKind of the failed final rename, "none" otherwise
    moved,       \* what the final rename put on the executable path, "absent" if it did not
    archive,     \* what the downloaded buffer unpacks as, "none" before extraction
    steps,       \* stages executed by this invocation, in order
    result,      \* what the command (or Config::load) returned to main's run()
    mpc,         \* position of the process in main.rs
    global,      \* GlobalArgs {config, verbose, log_level} as parsed by clap
    log_level,   \* run(): let log_level, -1 = not bound
    configFile,  \* what Config::load found at the configuration path
    config,      \* run(): let mut config
    environ,     \* the variables merge_env read from the environment
    runArgs,     \* run::Args {input, output, stats_only}
    files,       \* content of the files at the paths the run command names
    stdout,      \* lines the run command printed
    exitCode,    \* exit status of the process, -1 while it runs
    stderr       \* what main printed on standard error

vars == <<pc, target, args, status, release, asset, content_length, total_size,
          downloaded, buffer, chunks, received, stream, pbPrev, pbPos, staging, staged, exe, backup,
          moveErr, moved, archive, steps, result, mpc, global, log_level, configFile,
          config, environ, runArgs, files, stdout, exitCode, stderr>>

\* The state of main.rs outside the upgrade command.
cfgVars == <<configFile, config, environ>>
runVars == <<runArgs, files, stdout>>
exitVars == <<exitCode, stderr>>
mainVars == <<mpc, global, log_level, cfgVars, runVars, exitVars>>

(***************************************************************************)
(* Bounds of the model.                                                    *)
(***************************************************************************)
MaxAssets == 2     \* longest asset list of a release
MaxLeadingV == 1   \* most "v" characters in front of a tag
MaxTotal == 1      \* largest advertised content length
MaxBody == 2       \* most bytes a response body delivers
MaxChunk == 2      \* largest chunk of the byte stream
MaxChunks == 2     \* most chunks of one body
MaxText == 2       \* longest text of a file the run command reads

(***************************************************************************)
(* Compile-time strings.                                                   *)
(***************************************************************************)
APP_NAME == <<"app">>

\* build.rs re-exports CARGO_PKG_VERSION as "<package version> <git hash>".
APP_VERSION == <<"1", " ", "g">>

\* The targets the binary is built for; cfg!(windows) holds of the second.
LinuxTarget == <<"x86_64-unknown-linux-gnu">>

WindowsTarget == <<"x86_64-pc-windows-msvc">>

Targets == {LinuxTarget, WindowsTarget}

\* cfg!(windows)
CfgWindows(t) == t = WindowsTarget

None == <<"None">>

Some(x) == <<"Some", x>>

Min(a, b) == IF a <= b THEN a ELSE b

(***************************************************************************)
(* Results.  execute_async returns Ok(()) or Err(Error::<variant>(msg)).   *)
(***************************************************************************)
NoResult == [tag |-> "none", variant |-> "-", msg |-> <<>>]

Ok == [tag |-> "Ok", variant |-> "-", msg |-> <<>>]

ErrOther(m) == [tag |-> "Err", variant |-> "Other", msg |-> m]

ErrIo(m) == [tag |-> "Err", variant |-> "Io", msg |-> m]

(***************************************************************************)
(* Inputs: what the release host may answer.                               *)
(***************************************************************************)
RECURSIVE Vs(_)
Vs(n) == IF n = 0 THEN <<>> ELSE <<"v">> \o Vs(n - 1)

\* Release tags: a version text behind 0..MaxLeadingV letters "v".
TagBodies == {APP_VERSION, <<"2">>}

Tags == {Vs(n) \o b : n \in 0..MaxLeadingV, b \in TagBodies}

\* --version values of the command line.
Versions == {<<"v", "2">>}

Statuses == {200, 201, 304, 403, 404, 500}

\* str::trim_start_matches('v'): removes every leading 'v'.
RECURSIVE TrimStartV(_)
TrimStartV(s) ==
    IF s # <<>> /\ Head(s) = "v" THEN TrimStartV(Tail(s)) ELSE s

\* format!("{}-{}_{}.tar.gz", binary_name, release.tag_name, target)
FormatName(app, tag, tgt) == app \o <<"-">> \o tag \o <<"_">> \o tgt \o <<".tar.gz">>

ExpectedName(tag, tgt) == FormatName(APP_NAME, tag, tgt)

\* Asset names a release of tag t may carry: the archives of the targets
\* and, for target tgt, a name that matches the archive's name only in part
\* (its checksum file).
AssetNames(t, tgt) ==
    {ExpectedName(t, x) : x \in Targets} \cup {ExpectedName(t, tgt) \o <<".sha256">>}

SeqsUpTo(S, n) == UNION {[1..k -> S] : k \in 0..n}

\* The asset at position i has the download URL i.
ReleasesOf(t, tgt) ==
    {[tag_name |-> t, assets |-> a] : a \in SeqsUpTo(AssetNames(t, tgt), MaxAssets)}

Releases(tgt) == UNION {ReleasesOf(t, tgt) : t \in Tags}

NoRelease == [tag_name |-> <<>>, assets |-> <<>>]

(***************************************************************************)
(* get_release_info                                                        *)
(***************************************************************************)
\* StatusCode::is_success
IsSuccess(st) == st >= 200 /\ st <= 299

ReleaseStatusErrorSwapped(st, version) ==
    IF st = 404
    THEN IF version = None
         THEN ErrOther(<<"Release '{}' not found", version>>)
         ELSE ErrOther(<<"No releases found for this project">>)
    ELSE ErrIo(<<"GitHub API returned status: {}", st>>)

\* The error returned for a response whose status is not a success.
ReleaseStatusError(st, version) ==
    IF st = 404
    THEN IF version # None
         THEN ErrOther(<<"Release '{}' not found", version[2]>>)
         ELSE ErrOther(<<"No releases found for this project">>)
    ELSE ErrIo(<<"GitHub API returned status: {}", st>>)

(***************************************************************************)
(* execute_async: the version check                                        *)
(***************************************************************************)
UpToDateIgnoringForce(force, tag) == TrimStartV(tag) = APP_VERSION

UpToDateNoTrim(force, tag) == ~force /\ tag = APP_VERSION

UpToDate(force, tag) == ~force /\ TrimStartV(tag) = APP_VERSION

(***************************************************************************)
(* find_platform_asset                                                     *)
(***************************************************************************)
Matching(assets, name) == {i \in 1..Len(assets) : assets[i] = name}

LastMatch(assets, name) ==
    IF Matching(assets, name) = {} THEN 0
    ELSE CHOOSE i \in Matching(assets, name) : \A j \in Matching(assets, name) : j <= i

\* Iterator::find: the position of the first asset of that name, 0 for None.
FirstMatch(assets, name) ==
    IF Matching(assets, name) = {} THEN 0
    ELSE CHOOSE i \in Matching(assets, name) : \A j \in Matching(assets, name) : i <= j

NoAssetError(tgt, tag) ==
    ErrOther(<<"No pre-built binary found for target '{}' in release '{}'", tgt, tag>>)

SelectFallback(rel, tgt) ==
    IF FirstMatch(rel.assets, ExpectedName(rel.tag_name, tgt)) # 0
    THEN FirstMatch(rel.assets, ExpectedName(rel.tag_name, tgt))
    ELSE IF rel.assets # <<>> THEN 1 ELSE 0

SelectUnique(rel, tgt) ==
    IF Cardinality(Matching(rel.assets, ExpectedName(rel.tag_name, tgt))) = 1
    THEN FirstMatch(rel.assets, ExpectedName(rel.tag_name, tgt))
    ELSE 0

\* The asset find_platform_asset returns, 0 when it returns the error.
SelectAsset(rel, tgt) == FirstMatch(rel.assets, ExpectedName(rel.tag_name, tgt))

(***************************************************************************)
(* download_update                                                         *)
(***************************************************************************)
\* Response::content_length()
ContentLengths == {None} \cup {Some(n) : n \in 0..MaxTotal}

NoResponse == <<"NoResponse">>

TotalSizeOrZero(cl) == IF cl = None THEN 0 ELSE cl[2]

\* res.content_length().ok_or_else(..)?: the total, -1 when the error is returned.
TotalSize(cl) == IF cl = None THEN -1 ELSE cl[2]

NewPositionUnclamped(done, len, total) == done + len

\* min(downloaded + (chunk.len() as u64), total_size).  The sum cannot wrap:
\* downloaded never exceeds buffer.len(), which extend_from_slice has already
\* grown by chunk.len() and which a Vec keeps below 2^63.
NewPosition(done, len, total) == Min(done + len, total)

DropChunk(buf, len) == buf

\* buffer.extend_from_slice(&chunk)
ExtendBuffer(buf, len) == buf + len

\* What tar::Archive::unpack does with the buffer: "corrupt" fails before any
\* member is written; "binary" writes <cache_dir>/<APP_NAME> and succeeds;
\* "other" succeeds without an APP_NAME member; "truncated" writes the
\* binary member and then fails on a later one.
ArchiveKinds == {"corrupt", "binary", "other", "truncated"}

UnpackKeepExisting(kind, old) ==
    IF kind \in {"binary", "truncated"} /\ old = "absent" THEN "new" ELSE old

UnpackStaged(kind, old) == IF kind \in {"binary", "truncated"} THEN "new" ELSE old

UnpackOk(kind) == kind \in {"binary", "other"}

(***************************************************************************)
(* apply_update                                                            *)
(***************************************************************************)
MissingBinaryError == ErrOther(<<"Downloaded binary not found at: {}", APP_NAME>>)

PermissionDeniedError ==
    ErrOther(<<"Permission denied: cannot write to {}. Try running with elevated privileges.">>)

MoveErrorAlwaysIo(kind) == ErrIo(<<kind>>)

\* The error returned when rename(&update_binary, &current_exe) fails with kind.
MoveError(kind) ==
    IF kind = "PermissionDenied" THEN PermissionDeniedError ELSE ErrIo(<<kind>>)

RenameErrorKinds == {"PermissionDenied", "NotFound", "CrossesDevices"}

BackupByDelete(cur, bak) == [exe |-> "absent", backup |-> bak]

\* A successful rename(&current_exe, &backup) of the Windows build.
BackupByRename(cur, bak) == [exe |-> "absent", backup |-> cur]

(***************************************************************************)
(* args.rs: GlobalArgs, LogLevel and the effective log level.  A LogLevel  *)
(* is its discriminant, Emergency = 0 .. Debug = 7.                        *)
(***************************************************************************)
LogLevelError == 3

LogLevelDebug == 7

LogLevels == 0..LogLevelDebug

\* u8::MAX, the largest verbose count (clap's Count saturates there).
U8Max == 255

DEFAULT_CONFIG_FILE == <<"config", ".", "json">>

\* The paths given with -C, and the default.
ConfigPaths ==
    {DEFAULT_CONFIG_FILE, <<"config", ".", "yaml">>, <<"config", ".", "yml">>, <<"settings">>}

\* The GlobalArgs clap can produce.
GlobalArgsSet ==
    [config : ConfigPaths,
     verbose : 0..U8Max,
     log_level : {None} \cup {Some(l) : l \in LogLevels}]

\* The arguments before Cli::parse, and once run() reads them no more.
NoGlobal == [config |-> <<>>, verbose |-> 0, log_level |-> None]

\* u8::saturating_add
saturating_add(a, b) == IF a + b > U8Max THEN U8Max ELSE a + b

\* LogLevel::from_numeric
from_numeric(n) == IF n \in LogLevels THEN Some(n) ELSE None

incrementWrapping(self, n) ==
    LET new_level == Min((self + n) % (U8Max + 1), LogLevelDebug)
    IN  IF from_numeric(new_level) = None THEN LogLevelDebug ELSE from_numeric(new_level)[2]

\* LogLevel::increment
increment(self, n) ==
    LET new_level == Min(saturating_add(self, n), LogLevelDebug)
    IN  IF from_numeric(new_level) = None THEN LogLevelDebug ELSE from_numeric(new_level)[2]

\* effective_log_level
effective_log_level(a) ==
    LET base_level == IF a.log_level = None THEN LogLevelError ELSE a.log_level[2]
    IN  IF a.verbose > 0 THEN increment(base_level, a.verbose) ELSE base_level

(***************************************************************************)
(* Text whose letters matter is a sequence of characters.                  *)
(***************************************************************************)
Uppers == <<"A", "B", "C", "D", "E", "F", "G", "H", "I", "J", "K", "L", "M",
            "N", "O", "P", "Q", "R", "S", "T", "U", "V", "W", "X", "Y", "Z">>

Lowers == <<"a", "b", "c", "d", "e", "f", "g", "h", "i", "j", "k", "l", "m",
            "n", "o", "p", "q", "r", "s", "t", "u", "v", "w", "x", "y", "z">>

\* The position of character c in the alphabet abc, 0 when it is not in it.
IndexIn(abc, c) ==
    IF \E k \in 1..Len(abc) : abc[k] = c
    THEN CHOOSE k \in 1..Len(abc) : abc[k] = c
    ELSE 0

\* str::to_lowercase
to_lowercase(s) ==
    [i \in 1..Len(s) |-> IF IndexIn(Uppers, s[i]) # 0 THEN Lowers[IndexIn(Uppers, s[i])] ELSE s[i]]

(***************************************************************************)
(* config.rs: Profile, Config, load, validate and merge_env.               *)
(***************************************************************************)
ErrJson(m) == [tag |-> "Err", variant |-> "Json", msg |-> m]

\* Result<Config>::Ok
OkConfig(c) == [tag |-> "Ok", value |-> c]

\* impl Default for Profile
ProfileDefault ==
    [output_dir |-> <<"./output">>, log_level |-> <<"i", "n", "f", "o">>, parallel_jobs |-> 4]

\* impl Default for Config
ConfigDefault ==
    [default_profile |-> "local",
     profiles |->
        [n \in {"local", "ci", "release"} |->
            CASE n = "local" ->
                   [output_dir |-> <<"./output">>,
                    log_level |-> <<"d", "e", "b", "u", "g">>,
                    parallel_jobs |-> 4]
              [] n = "ci" ->
                   [output_dir |-> <<"/tmp/ci-output">>,
                    log_level |-> <<"e", "r", "r", "o", "r">>,
                    parallel_jobs |-> 1]
              [] n = "release" ->
                   [output_dir |-> <<"./dist">>,
                    log_level |-> <<"w", "a", "r", "n", "i", "n", "g">>,
                    parallel_jobs |-> 8]]]

\* validate: let valid_levels
valid_levels ==
    <<<<"e", "r", "r", "o", "r">>, <<"w", "a", "r", "n">>, <<"w", "a", "r", "n", "i", "n", "g">>,
      <<"i", "n", "f", "o">>, <<"d", "e", "b", "u", "g">>, <<"t", "r", "a", "c", "e">>>>

\* <[&str]>::contains
contains(arr, x) == \E i \in 1..Len(arr) : arr[i] = x

\* validate: the checks of one profile, in the order of the loop body.
ProfileError(name, profile) ==
    IF profile.output_dir = <<>>
    THEN Some(ErrOther(<<"Output directory cannot be empty in profile '{}'", name>>))
    ELSE IF profile.parallel_jobs = 0
    THEN Some(ErrOther(<<"Parallel jobs must be at least 1 in profile '{}'", name>>))
    ELSE IF ~contains(valid_levels, to_lowercase(profile.log_level))
    THEN Some(ErrOther(<<"Invalid log level '{}' in profile '{}'", profile.log_level, name>>))
    ELSE None

validateDefaultProfileOnly(cfg) ==
    IF cfg.default_profile \notin DOMAIN cfg.profiles
    THEN {ErrOther(<<"Default profile '{}' not found in profiles", cfg.default_profile>>)}
    ELSE {Ok}

\* Config::validate: the results it can return.  The loop runs over a
\* HashMap, whose order is unspecified: when several profiles are invalid the
\* error of any of them can be the one returned.
validate(cfg) ==
    IF cfg.default_profile \notin DOMAIN cfg.profiles
    THEN {ErrOther(<<"Default profile '{}' not found in profiles", cfg.default_profile>>)}
    ELSE LET bad == {n \in DOMAIN cfg.profiles : ProfileError(n, cfg.profiles[n]) # None}
         IN  IF bad = {}
             THEN {Ok}
             ELSE {ProfileError(n, cfg.profiles[n])[2] : n \in bad}

\* The profile names of configuration files.
ProfileNames == {"local", "ci"}

\* A profile object of a configuration file: a key is missing (None) or has
\* a value of its type.
ProfileDocs ==
    [output_dir : {None, Some(<<>>), Some(<<"./out">>)},
     log_level : {None, Some(<<"I", "n", "f", "o">>), Some(<<"n", "o", "t", "i", "c", "e">>)},
     parallel_jobs : {None, Some(0), Some(1)}]

ProfileMapDocs == UNION {[D -> ProfileDocs] : D \in SUBSET ProfileNames}

\* The top-level object of a configuration file.
ConfigDocs ==
    [default_profile : {None, Some("ci"), Some("ghost")},
     profiles : {None} \cup {Some(m) : m \in ProfileMapDocs}]

NoDoc == [default_profile |-> None, profiles |-> None]

\* What is at the configuration path: nothing; something read_to_string
\* fails on; text that is no document; a document written as JSON (which the
\* YAML parser reads too) or as YAML (which the JSON parser rejects).
ConfigFiles ==
    {[kind |-> k, doc |-> NoDoc] : k \in {"absent", "unreadable", "garbage"}}
        \cup {[kind |-> k, doc |-> d] : k \in {"json", "yaml"}, d \in ConfigDocs}

NoConfigFile == [kind |-> "none", doc |-> NoDoc]

\* Path::extension
extension(path) ==
    IF Len(path) >= 3 /\ path[Len(path) - 1] = "." THEN Some(path[Len(path)]) ELSE None

\* #[serde(default)] on Profile: a missing key takes the field of Profile::default().
DeserializeProfile(d) ==
    [output_dir |-> IF d.output_dir = None THEN ProfileDefault.output_dir ELSE d.output_dir[2],
     log_level |-> IF d.log_level = None THEN ProfileDefault.log_level ELSE d.log_level[2],
     parallel_jobs |-> IF d.parallel_jobs = None THEN ProfileDefault.parallel_jobs
                       ELSE d.parallel_jobs[2]]

\* #[serde(default)] on Config: a missing key takes the field of Config::default().
DeserializeConfig(d) ==
    [default_profile |-> IF d.default_profile = None THEN ConfigDefault.default_profile
                         ELSE d.default_profile[2],
     profiles |-> IF d.profiles = None THEN ConfigDefault.profiles
                  ELSE [n \in DOMAIN d.profiles[2] |-> DeserializeProfile(d.profiles[2][n])]]

\* Config::load_from_file
load_from_file(path, file) ==
    IF file.kind = "absent"
    THEN OkConfig(ConfigDefault)
    ELSE IF file.kind = "unreadable"
    THEN ErrIo(<<"read_to_string">>)
    ELSE IF extension(path) \in {Some("yaml"), Some("yml")}
    THEN IF file.kind \in {"json", "yaml"}
         THEN OkConfig(DeserializeConfig(file.doc))
         ELSE ErrOther(<<"Failed to parse YAML: {}">>)
    ELSE IF file.kind = "json"
         THEN OkConfig(DeserializeConfig(file.doc))
         ELSE ErrJson(<<"serde_json">>)

\* Config::load: the results it can return.
load(path, file) ==
    LET r == load_from_file(path, file)
    IN  IF r.tag = "Err"
        THEN {r}
        ELSE {IF v = Ok THEN r ELSE v : v \in validate(r.value)}

DigitChars == <<"0", "1", "2", "3", "4", "5", "6", "7", "8", "9">>

\* The value of a decimal digit, -1 for any other character.
digit(c) == IndexIn(DigitChars, c) - 1

RECURSIVE value(_)
\* The number a sequence of digits writes.
value(s) == IF s = <<>> THEN 0 ELSE 10 * value(SubSeq(s, 1, Len(s) - 1)) + digit(s[Len(s)])

RECURSIVE significant(_)
\* A sequence of digits without its leading zeros.
significant(s) == IF s # <<>> /\ Head(s) = "0" THEN significant(Tail(s)) ELSE s

\* u32::MAX as it is written.
U32MaxDigits == <<"4", "2", "9", "4", "9", "6", "7", "2", "9", "5">>

\* The digits write a number above u32::MAX.
overflows(s) ==
    LET sig == significant(s)
    IN  \/ Len(sig) > Len(U32MaxDigits)
        \/ /\ Len(sig) = Len(U32MaxDigits)
           /\ \E i \in 1..Len(sig) :
                /\ \A j \in 1..(i - 1) : sig[j] = U32MaxDigits[j]
                /\ digit(sig[i]) > digit(U32MaxDigits[i])

\* str::parse::<u32>: an optional "+", then one or more digits, no overflow.
parse_u32(s) ==
    LET body == IF s # <<>> /\ Head(s) = "+" THEN Tail(s) ELSE s
    IN  IF body = <<>> \/ \E i \in 1..Len(body) : digit(body[i]) < 0
        THEN None
        ELSE IF overflows(body) THEN None ELSE Some(value(body))

\* What std::env::var gives for the four variables merge_env reads: None
\* when the variable is not set (or is not Unicode), else its text.
Environs ==
    [PROFILE : {None, Some("ci"), Some("ghost")},
     OUTPUT_DIR : {None, Some(<<"/custom">>), Some(<<>>)},
     LOG_LEVEL : {None, Some(<<"d", "e", "b", "u", "g">>), Some(<<"l", "o", "u", "d">>)},
     PARALLEL_JOBS : {None, Some(<<"8">>), Some(<<"0">>), Some(<<"+", "2">>), Some(<<"x">>),
                      Some(<<>>),
                      Some(<<"1", "0", "0", "0", "0", "0", "0", "0", "0", "0", "0">>)}]

merge_envIntoOldDefault(cfg, env) ==
    LET dp == IF env.PROFILE # None THEN env.PROFILE[2] ELSE cfg.default_profile
        c1 == [cfg EXCEPT !.default_profile = dp]
        old == cfg.default_profile
    IN  IF old \in DOMAIN cfg.profiles
        THEN LET p0 == cfg.profiles[old]
                 p1 == IF env.OUTPUT_DIR # None
                       THEN [p0 EXCEPT !.output_dir = env.OUTPUT_DIR[2]] ELSE p0
                 p2 == IF env.LOG_LEVEL # None
                       THEN [p1 EXCEPT !.log_level = env.LOG_LEVEL[2]] ELSE p1
                 p3 == IF env.PARALLEL_JOBS # None /\ parse_u32(env.PARALLEL_JOBS[2]) # None
                       THEN [p2 EXCEPT !.parallel_jobs = parse_u32(env.PARALLEL_JOBS[2])[2]]
                       ELSE p2
             IN  [c1 EXCEPT !.profiles[old] = p3]
        ELSE c1

\* Config::merge_env
merge_env(cfg, env) ==
    LET dp == IF env.PROFILE # None THEN env.PROFILE[2] ELSE cfg.default_profile
        c1 == [cfg EXCEPT !.default_profile = dp]
    IN  IF dp \in DOMAIN cfg.profiles
        THEN LET p0 == cfg.profiles[dp]
                 p1 == IF env.OUTPUT_DIR # None
                       THEN [p0 EXCEPT !.output_dir = env.OUTPUT_DIR[2]] ELSE p0
                 p2 == IF env.LOG_LEVEL # None
                       THEN [p1 EXCEPT !.log_level = env.LOG_LEVEL[2]] ELSE p1
                 p3 == IF env.PARALLEL_JOBS # None /\ parse_u32(env.PARALLEL_JOBS[2]) # None
                       THEN [p2 EXCEPT !.parallel_jobs = parse_u32(env.PARALLEL_JOBS[2])[2]]
                       ELSE p2
             IN  [c1 EXCEPT !.profiles[dp] = p3]
        ELSE c1

(***************************************************************************)
(* commands/run.rs: the run command.                                       *)
(***************************************************************************)
\* The characters of the files' texts: a letter, the sharp s (written "sz"
\* here), whose upper case is two characters and whose encoding is two
\* bytes, a blank and a newline.
TextChars == {"a", "sz", " ", "\n"}

Texts == SeqsUpTo(TextChars, MaxText)

\* The paths the command is given.
Paths == {"in.txt", "out.txt"}

\* Something exists at a path that cannot be read as a string.
UnreadableFile == <<"Unreadable">>

\* What is at a path: nothing (None), a text, or something unreadable.
FileStates == {None, UnreadableFile} \cup {Some(t) : t \in Texts}

RunArgsSet == [input : Paths, output : {None} \cup {Some(p) : p \in Paths}, stats_only : BOOLEAN]

\* char::to_uppercase
char_to_uppercase(c) ==
    IF c = "sz" THEN <<"S", "S">>
    ELSE IF IndexIn(Lowers, c) # 0 THEN <<Uppers[IndexIn(Lowers, c)]>>
    ELSE <<c>>

to_uppercaseFirstOnly(s) == IF s = <<>> THEN <<>> ELSE char_to_uppercase(Head(s)) \o Tail(s)

RECURSIVE to_uppercase(_)
\* str::to_uppercase
to_uppercase(s) == IF s = <<>> THEN <<>> ELSE char_to_uppercase(Head(s)) \o to_uppercase(Tail(s))

is_whitespace(c) == c \in {" ", "\n"}

\* content.lines().count(): a final newline ends the last line, it starts none.
line_count(s) ==
    Cardinality({i \in 1..Len(s) : s[i] = "\n"})
        + (IF s # <<>> /\ s[Len(s)] # "\n" THEN 1 ELSE 0)

\* content.split_whitespace().count(): the places where a word starts.
word_count(s) ==
    Cardinality({i \in 1..Len(s) : ~is_whitespace(s[i]) /\ (i = 1 \/ is_whitespace(s[i - 1]))})

RECURSIVE byte_count(_)
\* content.len(): the length of the UTF-8 encoding.
byte_count(s) ==
    IF s = <<>> THEN 0 ELSE (IF Head(s) = "sz" THEN 2 ELSE 1) + byte_count(Tail(s))

\* The three lines of statistics println! writes.
StatsLines(s) ==
    <<<<"  Lines: {}", line_count(s)>>, <<"  Words: {}", word_count(s)>>,
      <<"  Bytes: {}", byte_count(s)>>>>

\* fs::write(path, data): what it can leave at the path.  It creates or
\* truncates the file and then writes; when creating fails the path is as
\* before, when writing fails the file holds an initial part of the data.
WriteOutcomes(old, data) ==
    {[ok |-> TRUE, file |-> Some(data)], [ok |-> FALSE, file |-> old]}
        \cup {[ok |-> FALSE, file |-> Some(SubSeq(data, 1, k))] : k \in 0..(Len(data) - 1)}

\* run::execute: what it can return, leave in the files and print.
run_execute(a, fs) ==
    IF fs[a.input] = None
    THEN {[result |-> ErrOther(<<"File not found: {}", a.input>>), files |-> fs, stdout |-> <<>>]}
    ELSE IF fs[a.input] = UnreadableFile
    THEN {[result |-> ErrIo(<<"read_to_string">>), files |-> fs, stdout |-> <<>>]}
    ELSE LET content == fs[a.input][2]
         IN  IF a.stats_only
             THEN {[result |-> Ok, files |-> fs,
                    stdout |-> <<<<"File statistics for '{}':", a.input>>>> \o StatsLines(content)]}
             ELSE IF a.output # None
             THEN {[result |-> IF w.ok THEN Ok ELSE ErrIo(<<"write">>),
                    files |-> [fs EXCEPT ![a.output[2]] = w.file],
                    stdout |-> IF w.ok
                               THEN <<<<"[SUCCESS] Output written to: {}", a.output[2]>>,
                                      <<"[SUCCESS] Processing complete.">>>>
                               ELSE <<>>] :
                      w \in WriteOutcomes(fs[a.output[2]], to_uppercase(content))}
             ELSE {[result |-> Ok, files |-> fs,
                    stdout |-> <<<<"File statistics:">>>> \o StatsLines(content)
                                   \o <<<<"[SUCCESS] Processing complete.">>>>]}

(***************************************************************************)
(* The state machine.                                                      *)
(***************************************************************************)
dlVars == <<content_length, total_size, downloaded, buffer, chunks, pbPrev, pbPos>>

fsVars == <<staging, staged, exe, backup>>

\* The upgrade command has not run: nothing is staged, no request was made.
InitUpgrade ==
    /\ pc = "idle"
    /\ target \in Targets
    /\ args = [version |-> None, force |-> FALSE]
    /\ status = 0
    /\ release = NoRelease
    /\ asset = 0
    /\ content_length = NoResponse
    /\ total_size = -1
    /\ downloaded = 0
    /\ buffer = 0
    /\ chunks = 0
    /\ pbPrev = 0
    /\ received = 0
    /\ stream = "idle"
    /\ pbPos = 0
    /\ staging = FALSE
    /\ staged = "absent"
    /\ exe = "orig"
    /\ backup = "absent"
    /\ moveErr = "none"
    /\ moved = "absent"
    /\ archive = "none"
    /\ steps = <<>>
    /\ result = NoResult

\* run::Args before Cli::parse.
NoRunArgs == [input |-> "", output |-> None, stats_only |-> FALSE]

\* The locals of run() are not bound and nothing has been printed.
InitLocals ==
    /\ global = NoGlobal
    /\ log_level = -1
    /\ configFile = NoConfigFile
    /\ config = None
    /\ environ = None
    /\ runArgs = NoRunArgs
    /\ files = <<>>
    /\ stdout = <<>>
    /\ exitCode = -1
    /\ stderr = <<>>

\* The process is inside commands::upgrade::execute.
Init ==
    /\ InitUpgrade
    /\ mpc = "upgrade"
    /\ InitLocals

\* commands::upgrade::execute: the runtime is built, or building it fails.
\* The program runs from the file at the executable path; what earlier
\* invocations left on disk is inherited: the executable is this run's
\* original, a staged binary is stale, a backup is an old one.
BeginUpgrade ==
    /\ pc \in {"idle", "done"}
    /\ exe # "absent"
    /\ \E f \in BOOLEAN, v \in {None} \cup {Some(x) : x \in Versions} :
         args' = [version |-> v, force |-> f]
    /\ \E ok \in BOOLEAN :
         IF ok
         THEN /\ pc' = "cache_dir"
              /\ result' = NoResult
         ELSE /\ pc' = "done"
              /\ result' = ErrIo(<<"Runtime::new">>)
    /\ status' = 0
    /\ release' = NoRelease
    /\ asset' = 0
    /\ content_length' = NoResponse
    /\ total_size' = -1
    /\ downloaded' = 0
    /\ buffer' = 0
    /\ chunks' = 0
    /\ received' = 0
    /\ stream' = "idle"
    /\ pbPrev' = 0
    /\ pbPos' = 0
    /\ exe' = "orig"
    /\ staged' = IF staged = "absent" THEN "absent" ELSE "stale"
    /\ backup' = IF backup = "absent" THEN "absent" ELSE "oldbak"
    /\ moveErr' = "none"
    /\ moved' = "absent"
    /\ archive' = "none"
    /\ steps' = <<>>
    /\ UNCHANGED <<target, staging>>

\* The upgrade command is run again, by a later process.
Invoke ==
    /\ mpc = "upgrade"
    /\ BeginUpgrade
    /\ UNCHANGED mainVars

FailAndRetry(e) ==
    /\ pc' = pc
    /\ result' = e

\* execute_async returns Err(e).
Fail(e) ==
    /\ pc' = "done"
    /\ result' = e

\* create_dir_all(&cache_dir) with its error dropped instead of returned.
CreateCacheDirIgnoringFailure ==
    /\ pc = "cache_dir"
    /\ steps' = Append(steps, "cache_dir")
    /\ \E ok \in BOOLEAN :
         /\ ~ok => ~staging
         /\ staging' = (staging \/ ok)
    /\ pc' = "resolve"
    /\ UNCHANGED result
    /\ UNCHANGED <<target, args, archive, status, release, asset, dlVars, received, stream, staged, exe, backup,
                   moveErr, moved>>
    /\ UNCHANGED mainVars

\* get_cache_dir()? and create_dir_all(&cache_dir)?
CreateCacheDir ==
    /\ pc = "cache_dir"
    /\ steps' = Append(steps, "cache_dir")
    /\ \E ok \in BOOLEAN :
         IF ok
         THEN /\ staging' = TRUE
              /\ pc' = "resolve"
              /\ UNCHANGED result
         ELSE /\ ~staging
              /\ Fail(ErrIo(<<"create_dir_all">>))
              /\ UNCHANGED staging
    /\ UNCHANGED <<target, args, archive, status, release, asset, dlVars, received, stream, staged, exe, backup,
                   moveErr, moved>>
    /\ UNCHANGED mainVars

\* get_release_info(&args).await?
GetReleaseInfo ==
    /\ pc = "resolve"
    /\ steps' = Append(steps, "resolve")
    /\ \/ \E m \in {"build", "send"} :
            /\ Fail(ErrIo(<<m>>))
            /\ UNCHANGED <<status, release>>
       \/ \E st \in Statuses :
            /\ ~IsSuccess(st)
            /\ status' = st
            /\ Fail(ReleaseStatusError(st, args.version))
            /\ UNCHANGED release
       \/ \E st \in Statuses :
            /\ IsSuccess(st)
            /\ status' = st
            /\ \/ /\ Fail(ErrIo(<<"json">>))
                  /\ UNCHANGED release
               \/ /\ release' \in Releases(target)
                  /\ pc' = "check"
                  /\ UNCHANGED result
    /\ UNCHANGED <<target, args, archive, asset, dlVars, received, stream, fsVars, moveErr, moved>>
    /\ UNCHANGED mainVars

\* if !args.force && release_info.tag_name.trim_start_matches('v') == current_version
CheckVersion ==
    /\ pc = "check"
    /\ steps' = Append(steps, "check")
    /\ IF UpToDate(args.force, release.tag_name)
       THEN /\ pc' = "done"
            /\ result' = Ok
       ELSE /\ pc' = "select"
            /\ UNCHANGED result
    /\ UNCHANGED <<target, args, archive, status, release, asset, dlVars, received, stream, fsVars, moveErr, moved>>
    /\ UNCHANGED mainVars

\* find_platform_asset(&release_info)?
FindPlatformAsset ==
    /\ pc = "select"
    /\ steps' = Append(steps, "select")
    /\ IF SelectAsset(release, target) # 0
       THEN /\ asset' = SelectAsset(release, target)
            /\ pc' = "download"
            /\ UNCHANGED result
       ELSE /\ Fail(NoAssetError(target, release.tag_name))
            /\ UNCHANGED asset
    /\ UNCHANGED <<target, args, archive, status, release, dlVars, received, stream, fsVars, moveErr, moved>>
    /\ UNCHANGED mainVars

\* download_update: the request for asset.browser_download_url, up to the
\* construction of the progress bar.
DownloadSend ==
    /\ pc = "download"
    /\ steps' = Append(steps, "download")
    /\ \/ \E m \in {"build", "send"} :
            /\ Fail(ErrIo(<<m>>))
            /\ UNCHANGED <<content_length, total_size, stream>>
       \/ \E cl \in ContentLengths :
            /\ content_length' = cl
            /\ IF TotalSize(cl) = -1
               THEN /\ Fail(ErrIo(<<"Failed to get content length">>))
                    /\ UNCHANGED <<total_size, stream>>
               ELSE /\ total_size' = TotalSize(cl)
                    /\ stream' = "open"
                    /\ pc' = "stream"
                    /\ UNCHANGED result
    /\ UNCHANGED <<target, args, archive, status, release, asset, downloaded, buffer, chunks,
                   received, pbPrev, pbPos, fsVars, moveErr, moved>>
    /\ UNCHANGED mainVars

\* One turn of `while let Some(item) = stream.next().await` with Some(Ok(chunk)).
StreamChunk ==
    /\ pc = "stream"
    /\ chunks < MaxChunks
    /\ \E len \in 0..MaxChunk :
         /\ buffer + len <= MaxBody
         /\ received' = received + len
         /\ buffer' = ExtendBuffer(buffer, len)
         /\ downloaded' = NewPosition(downloaded, len, total_size)
         /\ pbPos' = NewPosition(downloaded, len, total_size)
    /\ pbPrev' = pbPos
    /\ chunks' = chunks + 1
    /\ UNCHANGED <<pc, target, args, archive, status, release, asset, content_length, total_size,
                   stream, fsVars, moveErr, moved, steps, result>>
    /\ UNCHANGED mainVars

StreamErrorSwallowed ==
    /\ pc = "stream"
    /\ pc' = "extract"
    /\ stream' = "failed"
    /\ UNCHANGED <<target, args, archive, status, release, asset, dlVars, received, fsVars,
                   moveErr, moved, steps, result>>
    /\ UNCHANGED mainVars

\* stream.next() gives Some(Err(e)): the function returns and drops the buffer.
StreamError ==
    /\ pc = "stream"
    /\ Fail(ErrIo(<<"stream">>))
    /\ buffer' = 0
    /\ stream' = "failed"
    /\ UNCHANGED <<target, args, archive, status, release, asset, content_length, total_size,
                   downloaded, chunks, received, pbPrev, pbPos, fsVars, moveErr, moved, steps>>
    /\ UNCHANGED mainVars

\* stream.next() gives None: pb.finish_and_clear().
StreamEnd ==
    /\ pc = "stream"
    /\ pc' = "extract"
    /\ stream' = "ended"
    /\ UNCHANGED <<target, args, archive, status, release, asset, dlVars, received, fsVars,
                   moveErr, moved, steps, result>>
    /\ UNCHANGED mainVars

\* archive.unpack(cache_dir)?, then download_update returns and its locals
\* (response, buffer, progress bar) are dropped.
Extract ==
    /\ pc = "extract"
    /\ steps' = Append(steps, "extract")
    /\ \E kind \in ArchiveKinds :
         /\ kind # "corrupt" => buffer > 0
         /\ archive' = kind
         /\ staged' = UnpackStaged(kind, staged)
         /\ IF UnpackOk(kind)
            THEN /\ pc' = "apply"
                 /\ UNCHANGED result
            ELSE Fail(ErrIo(<<"unpack">>))
    /\ content_length' = NoResponse
    /\ total_size' = -1
    /\ downloaded' = 0
    /\ buffer' = 0
    /\ chunks' = 0
    /\ received' = 0
    /\ stream' = "idle"
    /\ pbPrev' = 0
    /\ pbPos' = 0
    /\ UNCHANGED <<target, args, status, release, asset, staging, exe, backup,
                   moveErr, moved>>
    /\ UNCHANGED mainVars

\* apply_update without the test of update_binary.exists().
ApplyCheckNoExistsTest ==
    /\ pc = "apply"
    /\ steps' = Append(steps, "apply")
    /\ \E ok \in BOOLEAN :
         IF ok
         THEN /\ pc' = IF CfgWindows(target) THEN "backup" ELSE "move"
              /\ UNCHANGED result
         ELSE Fail(ErrIo(<<"current_exe">>))
    /\ UNCHANGED <<target, args, archive, status, release, asset, dlVars, received, stream, fsVars, moveErr, moved>>
    /\ UNCHANGED mainVars

\* apply_update up to env::current_exe()?
ApplyCheck ==
    /\ pc = "apply"
    /\ steps' = Append(steps, "apply")
    /\ IF staged = "absent"
       THEN Fail(MissingBinaryError)
       ELSE \E ok \in BOOLEAN :
              IF ok
              THEN /\ pc' = IF CfgWindows(target) THEN "backup" ELSE "move"
                   /\ UNCHANGED result
              ELSE Fail(ErrIo(<<"current_exe">>))
    /\ UNCHANGED <<target, args, archive, status, release, asset, dlVars, received, stream, fsVars, moveErr, moved>>
    /\ UNCHANGED mainVars

\* #[cfg(windows)]: remove an old backup, rename the executable aside; a
\* failure of either is not an error of the upgrade.
WinBackup ==
    /\ pc = "backup"
    /\ CfgWindows(target)
    /\ steps' = Append(steps, "backup")
    /\ \E removed \in BOOLEAN, renamed \in BOOLEAN :
         LET bak == IF removed THEN "absent" ELSE backup
         IN  IF renamed
             THEN /\ exe' = BackupByRename(exe, bak).exe
                  /\ backup' = BackupByRename(exe, bak).backup
             ELSE /\ exe' = exe
                  /\ backup' = bak
    /\ pc' = "move"
    /\ UNCHANGED <<target, args, archive, status, release, asset, dlVars, received, stream, staging, staged,
                   moveErr, moved, result>>
    /\ UNCHANGED mainVars

\* rename(&update_binary, &current_exe), and on other systems the return of Ok.
MoveBinary ==
    /\ pc = "move"
    /\ steps' = Append(steps, "move")
    /\ \/ /\ exe' = staged
          /\ moved' = staged
          /\ staged' = "absent"
          /\ IF CfgWindows(target)
             THEN /\ pc' = "cleanup"
                  /\ UNCHANGED result
             ELSE /\ pc' = "done"
                  /\ result' = Ok
          /\ UNCHANGED moveErr
       \/ \E kind \in RenameErrorKinds :
            /\ moveErr' = kind
            /\ Fail(MoveError(kind))
            /\ UNCHANGED <<exe, moved, staged>>
    /\ UNCHANGED <<target, args, archive, status, release, asset, dlVars, received, stream, staging, backup>>
    /\ UNCHANGED mainVars

\* #[cfg(windows)]: std::fs::remove_file(backup).ok(), then Ok.
WinCleanup ==
    /\ pc = "cleanup"
    /\ CfgWindows(target)
    /\ steps' = Append(steps, "cleanup")
    /\ \E removed \in BOOLEAN :
         backup' = IF removed THEN "absent" ELSE backup
    /\ pc' = "done"
    /\ result' = Ok
    /\ UNCHANGED <<target, args, archive, status, release, asset, dlVars, received, stream, staging, staged, exe,
                   moveErr, moved>>
    /\ UNCHANGED mainVars

Next ==
    \/ Invoke
    \/ CreateCacheDir
    \/ GetReleaseInfo
    \/ CheckVersion
    \/ FindPlatformAsset
    \/ DownloadSend
    \/ StreamChunk
    \/ StreamError
    \/ StreamEnd
    \/ Extract
    \/ ApplyCheck
    \/ WinBackup
    \/ MoveBinary
    \/ WinCleanup

Spec == Init /\ [][Next]_vars

(***************************************************************************)
(* main.rs: one run of the process, from Cli::parse to its exit.           *)
(***************************************************************************)
upgradeVars == <<pc, target, args, status, release, asset, dlVars, received, stream, fsVars,
                 moveErr, moved, archive, steps>>

InitMain ==
    /\ InitUpgrade
    /\ mpc = "start"
    /\ InitLocals

\* let cli = Cli::parse()
ParseArgs ==
    /\ mpc = "start"
    /\ global' \in GlobalArgsSet
    /\ mpc' = "level"
    /\ UNCHANGED <<upgradeVars, result, log_level, cfgVars, runVars, exitVars>>

\* let log_level = effective_log_level(&cli.global)
EffectiveLogLevel ==
    /\ mpc = "level"
    /\ log_level' = effective_log_level(global)
    /\ mpc' = "tracing"
    /\ UNCHANGED <<upgradeVars, result, global, cfgVars, runVars, exitVars>>

\* init_tracing(log_level).  The subscriber takes the level; run() reads
\* neither it nor the verbosity arguments again.
InitTracing ==
    /\ mpc = "tracing"
    /\ log_level' = -1
    /\ global' = [NoGlobal EXCEPT !.config = global.config]
    /\ mpc' = "load"
    /\ UNCHANGED <<upgradeVars, result, cfgVars, runVars, exitVars>>

\* let mut config = Config::load(&cli.global.config)?
LoadConfig ==
    /\ mpc = "load"
    /\ \E file \in ConfigFiles :
       \E r \in load(global.config, file) :
         /\ configFile' = file
         /\ IF r.tag = "Ok"
            THEN /\ config' = Some(r.value)
                 /\ mpc' = "merge"
                 /\ UNCHANGED result
            ELSE /\ result' = r
                 /\ mpc' = "returned"
                 /\ UNCHANGED config
    /\ UNCHANGED <<upgradeVars, global, log_level, environ, runVars, exitVars>>

\* config.merge_env()?, which always returns Ok.  The configuration file and
\* its path are not read again.
MergeEnv ==
    /\ mpc = "merge"
    /\ \E env \in Environs :
         /\ environ' = Some(env)
         /\ config' = Some(merge_env(config[2], env))
    /\ configFile' = NoConfigFile
    /\ global' = NoGlobal
    /\ mpc' = "dispatch"
    /\ UNCHANGED <<upgradeVars, result, log_level, runVars, exitVars>>

\* The info! and debug! lines before the match: the last reads of config.
LogConfig ==
    /\ mpc = "dispatch"
    /\ config' = None
    /\ environ' = None
    /\ mpc' = "command"
    /\ UNCHANGED <<upgradeVars, result, global, log_level, configFile, runVars, exitVars>>

\* Commands::Run(args) => commands::run::execute(args), up to the first
\* look at the file system.
DispatchRun ==
    /\ mpc = "command"
    /\ runArgs' \in RunArgsSet
    /\ files' \in [Paths -> FileStates]
    /\ mpc' = "run"
    /\ UNCHANGED <<upgradeVars, result, global, log_level, cfgVars, stdout, exitVars>>

\* commands::run::execute
RunExecute ==
    /\ mpc = "run"
    /\ \E o \in run_execute(runArgs, files) :
         /\ result' = o.result
         /\ files' = o.files
         /\ stdout' = o.stdout
    /\ mpc' = "returned"
    /\ UNCHANGED <<upgradeVars, global, log_level, cfgVars, runArgs, exitVars>>

\* Commands::Upgrade(args) => commands::upgrade::execute(args)
DispatchUpgrade ==
    /\ mpc = "command"
    /\ BeginUpgrade
    /\ mpc' = "upgrade"
    /\ UNCHANGED <<global, log_level, cfgVars, runVars, exitVars>>

ExitCodeZero(r) == 0

\* main: the exit status for what run() returned.
ExitCode(r) == IF r.tag = "Err" THEN 1 ELSE 0

\* main: eprintln!("[ERROR] {}", e); std::process::exit(1), or the return
\* from main.
Exit ==
    /\ \/ mpc = "returned"
       \/ mpc = "upgrade" /\ pc = "done"
    /\ stderr' = IF result.tag = "Err" THEN <<<<"[ERROR] {}", result>>>> ELSE stderr
    /\ exitCode' = ExitCode(result)
    /\ mpc' = "exited"
    /\ UNCHANGED <<upgradeVars, result, global, log_level, cfgVars, runVars>>

NextMain ==
    \/ ParseArgs
    \/ EffectiveLogLevel
    \/ InitTracing
    \/ LoadConfig
    \/ MergeEnv
    \/ LogConfig
    \/ DispatchRun
    \/ RunExecute
    \/ DispatchUpgrade
    \/ CreateCacheDir
    \/ GetReleaseInfo
    \/ CheckVersion
    \/ FindPlatformAsset
    \/ DownloadSend
    \/ StreamChunk
    \/ StreamError
    \/ StreamEnd
    \/ Extract
    \/ ApplyCheck
    \/ WinBackup
    \/ MoveBinary
    \/ WinCleanup
    \/ Exit

SpecMain == InitMain /\ [][NextMain]_vars

(***************************************************************************)
(* Vocabulary of the properties.                                           *)
(***************************************************************************)
\* The invocation has executed stage s.
Did(s) == \E i \in 1..Len(steps) : steps[i] = s

\* A tag with its leading "v" stripped.
StripV(t) == IF t # <<>> /\ Head(t) = "v" THEN Tail(t) ELSE t

\* The positions of the release's assets whose name is the expected file name.
Exact == Matching(release.assets, FormatName(APP_NAME, release.tag_name, target))

\* Nothing of the install has happened: the executable is the original one.
ExeUntouched == exe = "orig" /\ moved = "absent" /\ ~Did("backup") /\ ~Did("move")

(***************************************************************************)
(* C1: when force is false and the resolved tag without its leading "v" is *)
(* the running version, the version check ends the invocation with Ok and  *)
(* no asset is selected, nothing is downloaded, extracted or replaced.     *)
(***************************************************************************)
C1_UpToDateNoWork ==
    (Did("check") /\ ~args.force /\ StripV(release.tag_name) = APP_VERSION)
        => /\ pc = "done"
           /\ result = Ok
           /\ steps = <<"cache_dir", "resolve", "check">>
           /\ asset = 0
           /\ content_length = NoResponse
           /\ buffer = 0
           /\ ExeUntouched

C1_Witness ==
    /\ pc = "done"
    /\ result = Ok
    /\ ~args.force
    /\ release.tag_name = <<"v">> \o APP_VERSION
    /\ Did("check")
    /\ Exact # {}

(***************************************************************************)
(* C2: when no asset of the release carries the expected file name, asset  *)
(* selection fails with the error naming the target and the tag; no asset  *)
(* is selected or downloaded and the executable stays as it was.           *)
(***************************************************************************)
C2_NoAssetIsError ==
    (Did("select") /\ Exact = {})
        => /\ pc = "done"
           /\ result = ErrOther(<<"No pre-built binary found for target '{}' in release '{}'",
                                  target, release.tag_name>>)
           /\ asset = 0
           /\ ~Did("download")
           /\ content_length = NoResponse
           /\ ExeUntouched

C2_Witness ==
    /\ Did("select")
    /\ pc = "done"
    /\ Len(release.assets) = 2
    /\ Exact = {}
    /\ result.tag = "Err"

(***************************************************************************)
(* C3: when some asset carries exactly the expected file name (built from  *)
(* the tag as the release reports it), the selected asset is the first     *)
(* such asset in list order; a name that matches in part is not selected.  *)
(***************************************************************************)
C3_FirstExactMatch ==
    (Did("select") /\ Exact # {})
        => /\ asset \in Exact
           /\ \A j \in Exact : asset <= j
           /\ release.assets[asset] = APP_NAME \o <<"-">> \o release.tag_name \o <<"_">>
                                        \o target \o <<".tar.gz">>
           /\ result.tag # "Err" \/ Did("download")

C3_Witness ==
    /\ pc = "download"
    /\ asset = 2
    /\ release.assets[1] = ExpectedName(release.tag_name, target) \o <<".sha256">>
    /\ Head(release.tag_name) = "v"

(***************************************************************************)
(* C4 as stated: unless exactly one asset matches, the invocation ends     *)
(* with an error at asset selection and nothing is downloaded.             *)
(***************************************************************************)
C4_Original ==
    (Did("select") /\ Cardinality(Exact) # 1)
        => /\ pc = "done"
           /\ result.tag = "Err"
           /\ asset = 0
           /\ ~Did("download")

(***************************************************************************)
(* C4 amended: only absence is an error.  With several matching assets the *)
(* first of them is selected and the invocation goes on to the download.   *)
(***************************************************************************)
C4_AmbiguityFirstWins ==
    Did("select")
        => /\ Cardinality(Exact) = 0 => (result = NoAssetError(target, release.tag_name)
                                          /\ ~Did("download"))
           /\ Cardinality(Exact) >= 2 =>
                 /\ asset # 0
                 /\ \A j \in Exact : asset <= j
                 /\ result # NoAssetError(target, release.tag_name)
                 /\ pc = "download" \/ Did("download")

C4_Witness ==
    /\ pc = "stream"
    /\ Cardinality(Exact) = 2
    /\ asset = 1

(***************************************************************************)
(* C5: a release query answered with a status that is not a success ends   *)
(* the invocation: 404 with a requested version gives the release-not-     *)
(* found error carrying that version, 404 without one the no-releases      *)
(* error, any other status the I/O error carrying the status; no asset     *)
(* selection, download or install follows.                                 *)
(***************************************************************************)
C5_StatusClassified ==
    (status # 0 /\ ~(status \in 200..299))
        => /\ pc = "done"
           /\ steps = <<"cache_dir", "resolve">>
           /\ release = NoRelease
           /\ asset = 0
           /\ ExeUntouched
           /\ (status = 404 /\ args.version # None) =>
                 /\ result.variant = "Other"
                 /\ result.msg = <<"Release '{}' not found", args.version[2]>>
           /\ (status = 404 /\ args.version = None) =>
                 /\ result.variant = "Other"
                 /\ result.msg = <<"No releases found for this project">>
           /\ status # 404 =>
                 /\ result.variant = "Io"
                 /\ result.msg = <<"GitHub API returned status: {}", status>>

C5_Witness ==
    /\ pc = "done"
    /\ status = 404
    /\ args.version = Some(<<"v", "2">>)
    /\ result.tag = "Err"

(***************************************************************************)
(* C6: a download response without a content length ends the invocation   *)
(* at once with the I/O error: no chunk is read, the buffer stays empty,   *)
(* nothing is extracted and the executable is not replaced.                *)
(***************************************************************************)
C6_NoContentLengthFatal ==
    content_length = None
        => /\ pc = "done"
           /\ result = ErrIo(<<"Failed to get content length">>)
           /\ total_size = -1
           /\ chunks = 0
           /\ buffer = 0
           /\ pbPos = 0
           /\ ~Did("extract")
           /\ staged # "new"
           /\ ExeUntouched

C6_Witness ==
    /\ content_length = None
    /\ Did("download")
    /\ pc = "done"
    /\ result.variant = "Io"

(***************************************************************************)
(* C7: the byte count given to the progress bar after a chunk is at least  *)
(* the count given before it and never more than the advertised content    *)
(* length, whatever the sizes of the chunks and of the body.               *)
(***************************************************************************)
C7_ProgressMonotoneBounded ==
    total_size # -1
        => /\ pbPrev <= pbPos
           /\ pbPos <= total_size
           /\ pbPos = downloaded

C7_Witness ==
    /\ pc = "stream"
    /\ chunks = 2
    /\ buffer > total_size
    /\ total_size > 0
    /\ pbPrev < pbPos
    /\ pbPos = total_size

(***************************************************************************)
(* C8 as stated: the buffer never holds more bytes than the advertised     *)
(* content length, and a longer body does not reach the extraction.        *)
(***************************************************************************)
C8_Original ==
    total_size # -1
        => /\ buffer <= total_size
           /\ pc = "extract" => buffer <= total_size

(***************************************************************************)
(* C8 amended: only the reported count is held to the advertised length:   *)
(* it is the smaller of the bytes received and the advertised length.  The *)
(* buffer holds every byte received and goes to the extraction whatever    *)
(* its size.                                                               *)
(***************************************************************************)
C8_OnlyProgressClamped ==
    /\ pc \in {"stream", "extract"} => downloaded = Min(buffer, total_size)
    /\ pc = "extract" => (result = NoResult /\ ENABLED Extract)

C8_Witness ==
    /\ pc = "extract"
    /\ buffer > total_size
    /\ total_size >= 0
    /\ downloaded = total_size

(***************************************************************************)
(* C9 as stated: a finished invocation either returned Ok with the new     *)
(* binary on the executable path, or returned an error with the original   *)
(* untouched there; on Windows a failed invocation may instead have the    *)
(* original under the .old backup name.                                    *)
(***************************************************************************)
C9_Original ==
    pc = "done"
        => \/ result = Ok /\ moved # "absent" /\ exe = moved
           \/ result.tag = "Err" /\ exe = "orig" /\ moved = "absent"
           \/ /\ CfgWindows(target)
              /\ result.tag = "Err"
              /\ exe = "orig" \/ backup = "orig"

(***************************************************************************)
(* C9 amended: there is a third outcome.  Ok is also returned, with the    *)
(* original untouched, when force is unset and the version check finds the *)
(* resolved release to be the running version.  Otherwise as stated, "the  *)
(* new binary" being the file that was staged at <cache_dir>/<APP_NAME>.   *)
(***************************************************************************)
C9_AllOrNothing ==
    pc = "done"
        => \/ result = Ok /\ moved # "absent" /\ exe = moved
           \/ /\ result = Ok
              /\ ~args.force
              /\ TrimStartV(release.tag_name) = APP_VERSION
              /\ steps = <<"cache_dir", "resolve", "check">>
              /\ exe = "orig"
              /\ moved = "absent"
           \/ result.tag = "Err" /\ exe = "orig" /\ moved = "absent"
           \/ /\ CfgWindows(target)
              /\ result.tag = "Err"
              /\ moved = "absent"
              /\ exe = "absent"
              /\ backup = "orig"

C9_Witness ==
    /\ pc = "done"
    /\ CfgWindows(target)
    /\ result.tag = "Err"
    /\ Did("move")
    /\ exe = "absent"
    /\ backup = "orig"

(***************************************************************************)
(* Errors of the stages before the final move that are not I/O errors.     *)
(***************************************************************************)
OtherStageErrors ==
    {ReleaseStatusError(404, v) : v \in {None} \cup {Some(x) : x \in Versions}}
        \cup {NoAssetError(target, t) : t \in Tags}
        \cup {MissingBinaryError}

C11_ExtractedBinaryInstalled ==
    /\ (archive = "binary" /\ pc \in {"apply", "backup", "move"}) => staged = "new"
    /\ (archive = "binary" /\ Did("move") /\ moveErr = "none")
          => /\ exe = "new"
             /\ moved = "new"
             /\ staged = "absent"

C11_Witness ==
    /\ archive = "binary"
    /\ Did("extract")
    /\ Did("move")
    /\ pc = "done"
    /\ result = Ok
    /\ exe = "new"

(***************************************************************************)
(* The stages of one invocation in the order of execute_async; the backup  *)
(* and the cleanup exist in the Windows build only.                        *)
(***************************************************************************)
Stages(tgt) ==
    <<"cache_dir", "resolve", "check", "select", "download", "extract", "apply">>
        \o (IF CfgWindows(tgt) THEN <<"backup", "move", "cleanup">> ELSE <<"move">>)

IsPrefix(s, t) == Len(s) <= Len(t) /\ s = SubSeq(t, 1, Len(s))

(***************************************************************************)
(* C13: the stages an invocation has run are an initial part of the fixed  *)
(* order (release query, version check, asset selection, download,         *)
(* install), each at most once; a stage runs only while no result has been *)
(* returned; and once a result, success or error, has been returned no     *)
(* stage runs again until the program is invoked anew (and then none runs  *)
(* when the invocation fails to build its runtime).                        *)
(***************************************************************************)
C13_StagesOnceInOrder ==
    /\ [](/\ IsPrefix(steps, Stages(target))
          /\ (result # NoResult) <=> (pc = "done")
          /\ \A i, j \in 1..Len(steps) : steps[i] = steps[j] => i = j)
    /\ [][pc = "done"
             => \/ steps' = steps /\ result' = result /\ pc' = pc
                \/ steps' = <<>> /\ result' = NoResult /\ pc' = "cache_dir"
                \/ steps' = <<>> /\ result' = ErrIo(<<"Runtime::new">>) /\ pc' = "done"]_vars

C13_Witness ==
    /\ pc = "done"
    /\ result.tag = "Err"
    /\ steps = <<"cache_dir", "resolve", "check", "select", "download">>
    /\ release # NoRelease
    /\ asset # 0

(***************************************************************************)
(* C14: the archive is unpacked only when the byte stream has ended and    *)
(* the buffer holds every byte the stream yielded; when the stream yields  *)
(* an error the invocation ends with that error, the buffer is dropped,    *)
(* nothing is unpacked into the staging directory and the executable is    *)
(* not touched.                                                            *)
(***************************************************************************)
C14_ExtractAfterStreamEnd ==
    /\ [](pc = "extract" => stream = "ended" /\ buffer = received)
    /\ [][(archive = "none" /\ archive' # "none")
             => stream = "ended" /\ buffer = received]_vars
    /\ [](stream = "failed"
             => /\ pc = "done"
                /\ result = ErrIo(<<"stream">>)
                /\ buffer = 0
                /\ archive = "none"
                /\ staged # "new"
                /\ ~Did("extract")
                /\ ~Did("apply")
                /\ ExeUntouched)

C14_Witness ==
    /\ stream = "failed"
    /\ chunks > 0
    /\ received > 0
    /\ pc = "done"
    /\ result.tag = "Err"

(***************************************************************************)
(* C15: with force set the version check never ends the invocation: right  *)
(* after it the invocation is at asset selection, also when the resolved   *)
(* tag is the running version, and a forced invocation returns success     *)
(* only by having downloaded, extracted and moved a binary onto the        *)
(* executable path.                                                        *)
(***************************************************************************)
C15_ForceSkipsVersionCheck ==
    /\ (args.force /\ steps = <<"cache_dir", "resolve", "check">>)
          => pc = "select" /\ result = NoResult
    /\ (args.force /\ result = Ok)
          => /\ steps = Stages(target)
             /\ asset # 0
             /\ archive # "none"
             /\ moved # "absent"
             /\ exe = moved

C15_Witness ==
    /\ args.force
    /\ TrimStartV(release.tag_name) = APP_VERSION
    /\ result = Ok
    /\ Did("select")
    /\ Did("download")
    /\ Did("move")
    /\ exe = "new"

(***************************************************************************)
(* C20: in the Windows build the final move puts the new binary on the     *)
(* executable path only when the original has been renamed aside to the    *)
(* backup name and no longer occupies the path, and the backup of the      *)
(* original is deleted only after that move has succeeded.                 *)
(***************************************************************************)
C20_Original ==
    [][CfgWindows(target)
          => /\ (moved = "absent" /\ moved' # "absent")
                   => exe # "orig" /\ backup = "orig"
             /\ (backup = "orig" /\ backup' = "absent")
                   => moved # "absent"]_vars

(***************************************************************************)
(* C16: the effective log level is min(base + verbose, 7), with base the   *)
(* given log level or Error (3) when none is given, for every base level   *)
(* 0..7 and every verbose count 0..255: the sum does not wrap around and   *)
(* the result is at most Debug (7).                                        *)
(***************************************************************************)
C16_EffectiveLevelCapped ==
    mpc = "tracing"
        => /\ log_level \in LogLevels
           /\ log_level =
                Min((IF global.log_level = None THEN 3 ELSE global.log_level[2])
                        + global.verbose, 7)

C16_Witness ==
    /\ mpc = "tracing"
    /\ global.log_level = Some(7)
    /\ global.verbose = 255
    /\ log_level = 7

(***************************************************************************)
(* The validation rules as the claims state them.                          *)
(***************************************************************************)
AllowedLevels == {valid_levels[i] : i \in 1..Len(valid_levels)}

SatisfiesRules(c) ==
    /\ c.default_profile \in DOMAIN c.profiles
    /\ \A n \in DOMAIN c.profiles :
         /\ c.profiles[n].output_dir # <<>>
         /\ c.profiles[n].parallel_jobs >= 1
         /\ to_lowercase(c.profiles[n].log_level) \in AllowedLevels

(***************************************************************************)
(* C17: when Config::load returns a configuration, it satisfies the        *)
(* validation rules (the log level compared without regard to case); when  *)
(* the file deserializes to a configuration that breaks one of the rules,  *)
(* load returns an error and no configuration; and for a file that does    *)
(* not exist it returns the built-in default configuration, which          *)
(* satisfies the rules.                                                    *)
(***************************************************************************)
C17_LoadOnlyValid ==
    configFile # NoConfigFile
        => /\ config # None => SatisfiesRules(config[2])
           /\ (/\ load_from_file(global.config, configFile).tag = "Ok"
               /\ ~SatisfiesRules(load_from_file(global.config, configFile).value))
                 => /\ config = None
                    /\ result.tag = "Err"
                    /\ mpc \in {"returned", "exited"}
           /\ configFile.kind = "absent"
                 => /\ config = Some(ConfigDefault)
                    /\ SatisfiesRules(ConfigDefault)
                    /\ result = NoResult

C17_Witness ==
    /\ configFile.kind = "json"
    /\ configFile.doc.default_profile = Some("ci")
    /\ configFile.doc.profiles # None
    /\ DOMAIN configFile.doc.profiles[2] = {"local", "ci"}
    /\ configFile.doc.profiles[2]["local"].parallel_jobs = Some(0)
    /\ configFile.doc.profiles[2]["ci"].parallel_jobs = Some(1)
    /\ configFile.doc.profiles[2]["ci"].log_level = Some(<<"I", "n", "f", "o">>)
    /\ configFile.doc.profiles[2]["ci"].output_dir = Some(<<"./out">>)
    /\ config = None
    /\ result.tag = "Err"
    /\ mpc = "returned"

(***************************************************************************)
(* The number the PARALLEL_JOBS texts of the model write, -1 for a text    *)
(* that is no number of the field's type.                                  *)
(***************************************************************************)
JobsWritten(s) ==
    CASE s = <<"8">> -> 8
      [] s = <<"0">> -> 0
      [] s = <<"+", "2">> -> 2
      [] OTHER -> -1

(***************************************************************************)
(* C18: merge_env sets default_profile to PROFILE when it is set and       *)
(* leaves it otherwise; it adds and removes no profile; only the profile   *)
(* named by the resulting default_profile can change, and in it exactly    *)
(* the fields whose variable is set take the variable's value, with        *)
(* parallel_jobs left as it was when PARALLEL_JOBS does not parse; when    *)
(* the resulting default_profile names no profile, no profile changes.     *)
(***************************************************************************)
C18_MergeEnvFrame ==
    [][(mpc = "merge" /\ mpc' = "dispatch")
          => LET old == config[2]
                 new == config'[2]
                 env == environ'[2]
                 dp == new.default_profile
             IN  /\ dp = IF env.PROFILE # None THEN env.PROFILE[2] ELSE old.default_profile
                 /\ DOMAIN new.profiles = DOMAIN old.profiles
                 /\ \A n \in DOMAIN old.profiles :
                      n # dp => new.profiles[n] = old.profiles[n]
                 /\ dp \in DOMAIN old.profiles
                      => /\ new.profiles[dp].output_dir =
                              IF env.OUTPUT_DIR # None THEN env.OUTPUT_DIR[2]
                              ELSE old.profiles[dp].output_dir
                         /\ new.profiles[dp].log_level =
                              IF env.LOG_LEVEL # None THEN env.LOG_LEVEL[2]
                              ELSE old.profiles[dp].log_level
                         /\ new.profiles[dp].parallel_jobs =
                              IF env.PARALLEL_JOBS # None /\ JobsWritten(env.PARALLEL_JOBS[2]) >= 0
                              THEN JobsWritten(env.PARALLEL_JOBS[2])
                              ELSE old.profiles[dp].parallel_jobs
                 /\ dp \notin DOMAIN old.profiles => new.profiles = old.profiles]_vars

C18_Witness ==
    /\ mpc = "dispatch"
    /\ environ # None
    /\ environ[2].PROFILE = Some("ci")
    /\ environ[2].OUTPUT_DIR = Some(<<"/custom">>)
    /\ environ[2].PARALLEL_JOBS = Some(<<"x">>)
    /\ config[2].default_profile = "ci"
    /\ DOMAIN config[2].profiles = {"local", "ci", "release"}
    /\ config[2].profiles["ci"].output_dir = <<"/custom">>
    /\ config[2].profiles["ci"].parallel_jobs = 1
    /\ config[2].profiles["local"] = ConfigDefault.profiles["local"]

(***************************************************************************)
(* The upper case of a text of the model, character by character.          *)
(***************************************************************************)
UpperOf(c) ==
    CASE c = "a" -> <<"A">>
      [] c = "sz" -> <<"S", "S">>
      [] OTHER -> <<c>>

RECURSIVE Upcased(_)
Upcased(s) == IF s = <<>> THEN <<>> ELSE Upcased(SubSeq(s, 1, Len(s) - 1)) \o UpperOf(s[Len(s)])

(***************************************************************************)
(* C19: the run command changes a file only when the input file exists,    *)
(* an output path is given and --stats-only is not set, and then only the  *)
(* file at the output path; when it returns success in that case, the      *)
(* output file holds exactly the upper-cased input text, whatever it held  *)
(* before; when the input file does not exist it returns the "File not     *)
(* found" error, and then, as with --stats-only, every file is as before.  *)
(***************************************************************************)
C19_RunWritesOnlyOutput ==
    [][(mpc = "run" /\ mpc' = "returned")
          => LET input == files[runArgs.input]
             IN  /\ files' # files
                      => /\ input # None
                         /\ runArgs.output # None
                         /\ ~runArgs.stats_only
                         /\ \A p \in Paths : p # runArgs.output[2] => files'[p] = files[p]
                 /\ (/\ input \notin {None, UnreadableFile}
                     /\ runArgs.output # None
                     /\ ~runArgs.stats_only
                     /\ result' = Ok)
                      => files'[runArgs.output[2]] = Some(Upcased(input[2]))
                 /\ input = None
                      => /\ result' = ErrOther(<<"File not found: {}", runArgs.input>>)
                         /\ files' = files
                 /\ runArgs.stats_only => files' = files]_vars

C19_Witness ==
    /\ mpc = "returned"
    /\ runArgs = [input |-> "in.txt", output |-> Some("out.txt"), stats_only |-> FALSE]
    /\ files["in.txt"] = Some(<<"a", "sz">>)
    /\ files["out.txt"] = Some(<<"A", "S", "S">>)
    /\ result = Ok
    /\ stdout # <<>>

C21_MissingBinaryBeforeExe ==
    /\ [](result = MissingBinaryError
            => /\ pc = "done"
               /\ staged = "absent"
               /\ steps # <<>>
               /\ steps[Len(steps)] = "apply"
               /\ ExeUntouched
               /\ backup # "orig")
    /\ [][(pc = "apply" /\ staged = "absent")
            => /\ pc' = "done"
               /\ result' = MissingBinaryError
               /\ steps' = Append(steps, "apply")
               /\ exe' = exe
               /\ backup' = backup
               /\ moved' = moved
               /\ staged' = staged]_vars

C21_Witness ==
    /\ Did("extract")
    /\ archive = "other"
    /\ staged = "absent"
    /\ pc = "done"
    /\ result = MissingBinaryError
    /\ exe = "orig"

(***************************************************************************)
(* C22 as stated: whatever earlier invocations left in the staging         *)
(* directory, the binary a successful move puts onto the executable path   *)
(* is the one unpacked from the archive of the same invocation; a binary   *)
(* staged by an earlier invocation is never installed, not even when the   *)
(* archive of this invocation holds no application binary.                 *)
(***************************************************************************)
C22_Original ==
    /\ moved # "stale"
    /\ exe # "stale"
    /\ (Did("move") /\ moveErr = "none")
          => /\ archive = "binary"
             /\ moved = "new"
             /\ exe = "new"

(***************************************************************************)
(* C23 as stated: the configuration that Config::load returned and         *)
(* merge_env then changed, the one in force when a command is dispatched,  *)
(* still names an existing default profile and has in every profile at     *)
(* least one parallel job and an allowed log level, whatever the PROFILE,  *)
(* LOG_LEVEL and PARALLEL_JOBS environment variables hold.                 *)
(***************************************************************************)
C23_Original ==
    mpc = "dispatch"
        => /\ config # None
           /\ config[2].default_profile \in DOMAIN config[2].profiles
           /\ \A n \in DOMAIN config[2].profiles :
                /\ config[2].profiles[n].parallel_jobs >= 1
                /\ to_lowercase(config[2].profiles[n].log_level) \in AllowedLevels

(***************************************************************************)
(* C24: an invocation creates the staging directory before it queries the  *)
(* release.  The creation is the first stage and the query the second;     *)
(* when the creation fails the invocation ends there with an I/O error,    *)
(* no request made and no response received; the query is made only with   *)
(* the directory in place, and the directory is still there whenever the   *)
(* query has been made, however the invocation goes on or ends (resolver   *)
(* error, already up to date, or later).                                   *)
(***************************************************************************)
C24_StagingBeforeQuery ==
    /\ [](/\ pc = "resolve" => staging
          /\ Did("resolve")
               => /\ staging
                  /\ Len(steps) >= 2
                  /\ steps[1] = "cache_dir"
                  /\ steps[2] = "resolve"
          /\ result = ErrIo(<<"create_dir_all">>)
               => /\ pc = "done"
                  /\ steps = <<"cache_dir">>
                  /\ ~staging
                  /\ status = 0
                  /\ release = NoRelease)
    /\ [][/\ staging => staging'
          /\ pc = "cache_dir"
               => \/ staging' /\ pc' = "resolve" /\ result' = NoResult
                  \/ /\ ~staging'
                     /\ pc' = "done"
                     /\ result' = ErrIo(<<"create_dir_all">>)]_vars

C24_Witness ==
    /\ pc = "done"
    /\ steps = <<"cache_dir", "resolve">>
    /\ status = 404
    /\ result = ReleaseStatusError(404, args.version)
    /\ staging

====
